---- MODULE Spec2Model ----
(***************************************************************************)
(* Model of the CrediBot recommendation engine (recengine):                *)
(*   - ActionSelector.select_action   (src/utils/action_selector.py)       *)
(*   - RewardCalculator               (src/utils/reward_calc.py)           *)
(*   - calculate_personalized_ranking (src/utils/enhanced_ranking.py)      *)
(*   - the serving layer's endpoints  (src/api.py)                         *)
(* Money and rates are Python floats in the source; here they are exact    *)
(* rationals <<numerator, denominator>> (reward calculator) or integer     *)
(* cents (action selector thresholds).  Float rounding is modelled in one  *)
(* place, the difference 1.4 - 1.0 of _estimate_annual_benefit, which      *)
(* falls short of 0.4.                                                     *)
(* The engine components are pure functions: a behaviour draws the         *)
(* arguments of one call in its initial state and then runs the call.  The *)
(* endpoints keep state between requests (the cooldown map) and are        *)
(* called in any order.                                                    *)
(***************************************************************************)
EXTENDS Integers, Sequences, FiniteSets, TLC

VARIABLES
    selReq,     \* arguments of the last select_action call
    selResp,    \* what that call returned (or the exception it raised)
    cards,      \* RewardCalculator.cards: the loaded catalog (a list)
    calcReq,    \* arguments of the last analyze_transaction call
    calcResp,   \* the RewardAnalysis it returned (or the exception raised)
    catalog_file, \* the rows csv.DictReader yields for the catalog file
    loadResp,   \* what RewardCalculator(catalog_path) did with them
    rankReq,    \* arguments of the last ranking call
    rankResp,   \* the list that call returned
    models,     \* api.models: the names of the model files that loaded
    reward_calculator, \* api.reward_calculator is an object (TRUE) or None
    user_cooldowns, \* api.user_cooldowns: user id -> time of last recommendation
    now,        \* datetime.now(), in minutes since the server started
    apiReq,     \* the last request an endpoint handled
    apiResp     \* the response (or HTTP error) it produced

\* the state of the serving layer
apiVars ==
    <<models, reward_calculator, user_cooldowns, now, apiReq, apiResp>>

vars ==
    <<selReq, selResp, cards, calcReq, calcResp, catalog_file, loadResp,
      rankReq, rankResp, models, reward_calculator, user_cooldowns, now,
      apiReq, apiResp>>

\* Python's None, and the marker for a key a dict does not carry
None == "None"
NoKey == "NoKey"

(***************************************************************************)
(* ActionSelector                                                          *)
(***************************************************************************)

\* ActionSelector.__init__
max_cards_per_user == 5

\* bound on the length of the owned-card lists that are tried
MaxOwned == 5

\* thresholds of select_action, in cents / dollars / hundredths
MinBenefitCents == 2
ExpansionBenefitCents == 5
ExpansionCardLimit == 3
switch_benefit_threshold == 100

\* _find_worst_card: basic_cashback_cards
basic_cashback_cards ==
    { "citi_double_cash_card", "wells_fargo_active_cash_card",
      "capital_one_quicksilver" }

\* select_action: high_value_categories
high_value_categories == { "dining", "travel", "groceries" }

\* _check_category_coverage: category_specialists.get(category, [])
category_specialists(category) ==
    CASE category = "dining" ->
            { "american_express_gold_card", "capital_one_savor",
              "chase_sapphire_preferred" }
      [] category = "travel" ->
            { "chase_sapphire_preferred", "chase_sapphire_reserve",
              "capital_one_venture_rewards" }
      [] category = "groceries" ->
            { "blue_cash_preferred_card", "american_express_gold_card" }
      [] category = "gas" ->
            { "blue_cash_preferred_card", "discover_it_cash_back" }
      [] OTHER -> {}

\* the elements of a list
Range(s) == { s[i] : i \in DOMAIN s }

\* An Optional[...] argument is a list of at most one element:
\* <<>> is None and <<v>> is the value v
Nothing == <<>>
Some(v) == <<v>>

\* Python truthiness of the optional spending dict: None and {} are falsy
Truthy(spending_pattern) ==
    spending_pattern # Nothing /\ DOMAIN spending_pattern[1] # {}

RECURSIVE SumOver(_, _)
\* sum(spending_pattern.values())
SumOver(f, keys) ==
    IF keys = {} THEN 0
    ELSE LET k == CHOOSE k \in keys : TRUE
         IN f[k] + SumOver(f, keys \ {k})

\* _check_category_coverage(...)["has_good_coverage"]
_check_category_coverage(category, user_cards) ==
    \E i \in DOMAIN user_cards : user_cards[i] \in category_specialists(category)

\* first list index holding a basic cashback card (0 if none)
FirstBasic(user_cards) ==
    IF \E i \in DOMAIN user_cards : user_cards[i] \in basic_cashback_cards
    THEN CHOOSE i \in DOMAIN user_cards :
            /\ user_cards[i] \in basic_cashback_cards
            /\ \A j \in 1..(i-1) : user_cards[j] \notin basic_cashback_cards
    ELSE 0

\* faulty variant: the basic-cashback preference applied without a spending profile
_find_worst_card_always_prefers_basic(user_cards, spending_pattern) ==
    IF user_cards = <<>> THEN "IndexError"
    ELSE IF FirstBasic(user_cards) # 0 THEN user_cards[FirstBasic(user_cards)]
    ELSE user_cards[1]

\* _find_worst_card; user_cards[0] of an empty list raises IndexError
_find_worst_card(user_cards, spending_pattern) ==
    IF ~Truthy(spending_pattern) \/ user_cards = <<>>
    THEN IF user_cards = <<>> THEN "IndexError" ELSE user_cards[1]
    ELSE IF FirstBasic(user_cards) # 0 THEN user_cards[FirstBasic(user_cards)]
    ELSE user_cards[1]

\* _find_least_used_card
_find_least_used_card(user_cards) ==
    IF user_cards # <<>> THEN user_cards[1] ELSE ""

\* `needle in card_id.lower()` for the three needles
\* _estimate_annual_benefit looks for, over the card ids in use
IdContains(card_id, needle) ==
    CASE needle = "sapphire" ->
            card_id \in { "chase_sapphire_preferred", "chase_sapphire_reserve" }
      [] needle = "gold" -> card_id \in { "american_express_gold_card" }
      [] needle = "double_cash" -> card_id \in { "citi_double_cash_card" }
      [] OTHER -> FALSE

\* new_card_multiplier - current_card_multiplier, in tenths
MultiplierGain10(new_card_id) ==
    IF IdContains(new_card_id, "sapphire") THEN 10
    ELSE IF IdContains(new_card_id, "gold") THEN 8
    ELSE IF IdContains(new_card_id, "double_cash") THEN 4
    ELSE 5

\* the binary floating-point difference 1.4 - 1.0 is 0.3999999999999999,
\* short of 0.4 by less than 1e-16; 2.0 - 1.0, 1.8 - 1.0 and 1.5 - 1.0 are
\* the doubles nearest 1.0, 0.8 and 0.5.  The shortfall is counted as one
\* half of a thousandth of a dollar, below every difference between two
\* estimates of whole-dollar totals
FloatShortfall(new_card_id) ==
    IF MultiplierGain10(new_card_id) = 4 THEN 1 ELSE 0

\* _estimate_annual_benefit, in half thousandths of a dollar:
\* total * 0.01 * (multiplier - 1.0) as the floats give it, never below 0
_estimate_annual_benefit(new_card_id, current_card_id, spending_pattern) ==
    LET total == SumOver(spending_pattern[1], DOMAIN spending_pattern[1])
        est == 2 * total * MultiplierGain10(new_card_id)
                  - (IF total > 0 THEN FloatShortfall(new_card_id) ELSE 0)
    IN IF est > 0 THEN est ELSE 0

\* _create_action_response; confidence in hundredths
_create_action_response(action, card_id, confidence, rule, from_card) ==
    [ raised |-> None, action |-> action, card_id |-> card_id,
      confidence |-> confidence, rule |-> rule, from_card |-> from_card ]

\* an exception leaving select_action
Raise(exc) ==
    [ raised |-> exc, action |-> None, card_id |-> None,
      confidence |-> 0, rule |-> None, from_card |-> NoKey ]

\* confidences of the eight rules, in hundredths
ConfNone == 0
ConfMaxCards == 80
ConfCategory == 90
ConfAnnualBenefit == 85
ConfExpansion == 60
ConfOptimize == 70
ConfFallback == 40

\* Rule 1 test: best_card_id in user_cards
HasBestCard(best_card_id, user_cards) == best_card_id \in Range(user_cards)

\* faulty variant: rule 2 compares with <= instead of <
InsufficientBenefit_inclusive(extra_reward_amt) ==
    extra_reward_amt <= MinBenefitCents

\* Rule 2 test: extra_reward_amt < 0.02
InsufficientBenefit(extra_reward_amt) == extra_reward_amt < MinBenefitCents

\* faulty variant: the comparison of rule 3 is inverted
WalletFull_inverted(user_cards) == Len(user_cards) <= max_cards_per_user

\* faulty variant: the wallet is treated as full one card late
WalletFull_off_by_one(user_cards) == Len(user_cards) > max_cards_per_user

\* Rule 3 test: len(user_cards) >= self.max_cards_per_user
WalletFull(user_cards) == Len(user_cards) >= max_cards_per_user

\* faulty variant: rule 4 fires only while the portfolio is small
LacksSpecialist_small_portfolio(category, user_cards) ==
    /\ category \in high_value_categories
    /\ ~_check_category_coverage(category, user_cards)
    /\ Len(user_cards) < ExpansionCardLimit

\* Rule 4 test: high-value category without good coverage
LacksSpecialist(category, user_cards) ==
    /\ category \in high_value_categories
    /\ ~_check_category_coverage(category, user_cards)

\* faulty variant: the fallback answers 'none'
FallbackAction_none == "none"

\* action of the fallback rule
FallbackAction == "add"

\* rules 5 to 8 of select_action (lines 128-186)
LaterRules(transaction, reward_analysis, user_cards, user_spending_pattern) ==
    LET best_card_id == reward_analysis.best_card_id
        extra_reward_amt == reward_analysis.extra_reward_amt
        current_card_id == transaction.current_card_id
    IN
    IF /\ Truthy(user_spending_pattern)
       /\ _estimate_annual_benefit(best_card_id, current_card_id,
                                   user_spending_pattern)
              >= switch_benefit_threshold * 2000
    THEN _create_action_response("switch", best_card_id, ConfAnnualBenefit,
                                 "high_annual_benefit", current_card_id)
    ELSE IF /\ extra_reward_amt >= ExpansionBenefitCents
            /\ Len(user_cards) < ExpansionCardLimit
    THEN _create_action_response("add", best_card_id, ConfExpansion,
                                 "portfolio_expansion", NoKey)
    ELSE IF Len(user_cards) >= ExpansionCardLimit
    THEN _create_action_response("switch", best_card_id, ConfOptimize,
                                 "optimize_existing_portfolio",
                                 _find_least_used_card(user_cards))
    ELSE _create_action_response(FallbackAction, best_card_id, ConfFallback,
                                 "fallback_add", NoKey)

\* ActionSelector.select_action: the ordered rule cascade
select_action(transaction, reward_analysis, user_cards, user_spending_pattern) ==
    LET best_card_id == reward_analysis.best_card_id
        extra_reward_amt == reward_analysis.extra_reward_amt
    IN
    IF HasBestCard(best_card_id, user_cards)
    THEN _create_action_response("none", best_card_id, ConfNone,
                                 "already_has_best_card", NoKey)
    ELSE IF InsufficientBenefit(extra_reward_amt)
    THEN _create_action_response("none", best_card_id, ConfNone,
                                 "insufficient_benefit", NoKey)
    ELSE IF WalletFull(user_cards)
    THEN LET worst_card == _find_worst_card(user_cards, user_spending_pattern)
         IN IF worst_card = "IndexError" THEN Raise("IndexError")
            ELSE _create_action_response("switch", best_card_id, ConfMaxCards,
                                         "max_cards_reached", worst_card)
    ELSE IF transaction.category = NoKey THEN Raise("KeyError")
    ELSE IF LacksSpecialist(transaction.category, user_cards)
    THEN _create_action_response("add", best_card_id, ConfCategory,
                                 "category_specialization", NoKey)
    ELSE LaterRules(transaction, reward_analysis, user_cards,
                    user_spending_pattern)

\* select_actions: the module-level wrapper; user_cards defaults to the
\* basic card when the caller passes None
select_actions(txn, reward_table, user_cards, user_spending) ==
    select_action(txn, reward_table,
                  IF user_cards = Nothing THEN <<"citi_double_cash_card">>
                  ELSE user_cards[1],
                  user_spending)

(***************************************************************************)
(* Exact arithmetic: a number is <<n, d>> with d > 0 and gcd(n, d) = 1     *)
(***************************************************************************)

Abs(x) == IF x < 0 THEN -x ELSE x

RECURSIVE GCD(_, _)
GCD(a, b) == IF b = 0 THEN a ELSE GCD(b, a % b)

\* the number n / d (d > 0) in lowest terms
Dec(n, d) ==
    LET g == GCD(Abs(n), d)
    IN IF g = 0 THEN <<0, 1>> ELSE <<n \div g, d \div g>>

Num(k) == <<k, 1>>
Zero == Num(0)
RAdd(a, b) == Dec(a[1] * b[2] + b[1] * a[2], a[2] * b[2])
RSub(a, b) == Dec(a[1] * b[2] - b[1] * a[2], a[2] * b[2])
RMul(a, b) == Dec(a[1] * b[1], a[2] * b[2])
\* a / b for b # 0
RDiv(a, b) ==
    IF b[1] > 0 THEN Dec(a[1] * b[2], a[2] * b[1])
    ELSE Dec(-(a[1] * b[2]), a[2] * (-b[1]))
RLt(a, b) == a[1] * b[2] < b[1] * a[2]
RLe(a, b) == a[1] * b[2] <= b[1] * a[2]
RGt(a, b) == RLt(b, a)
RGe(a, b) == RLe(b, a)

(***************************************************************************)
(* RewardCalculator                                                        *)
(***************************************************************************)

\* faulty variant: every category without an exact entry falls back to "shopping"
get_reward_rate_for_category_no_base(card, category) ==
    LET bonus_categories == card.bonus_categories
    IN IF category \in DOMAIN bonus_categories
       THEN bonus_categories[category]
       ELSE IF "shopping" \in DOMAIN bonus_categories
       THEN bonus_categories["shopping"]
       ELSE card.base_rate_pct

\* RewardCalculator.get_reward_rate_for_category
get_reward_rate_for_category(card, category) ==
    LET bonus_categories == card.bonus_categories
    IN IF category \in DOMAIN bonus_categories
       THEN bonus_categories[category]
       ELSE IF /\ category \in {"online_shopping", "shopping"}
               /\ "shopping" \in DOMAIN bonus_categories
       THEN bonus_categories["shopping"]
       ELSE IF category = "rotating" /\ "rotating" \in DOMAIN bonus_categories
       THEN bonus_categories["rotating"]
       ELSE card.base_rate_pct

\* calculate_reward_amount, lines 108-113: raw reward units
RawRewardPoints(card, amount, applicable_rate) ==
    IF card.reward_type \in {"points", "miles"}
    THEN RMul(amount, applicable_rate)
    ELSE RMul(amount, RDiv(applicable_rate, Num(100)))

\* faulty variant: the cap is compared in the units of the raw reward, so that it
\* is a dollar threshold for points and miles as well
MaxBonusPoints_per_type(card, bonus_rate) ==
    IF card.reward_type \in {"points", "miles"}
    THEN RMul(card.bonus_cap_amt, bonus_rate)
    ELSE RMul(card.bonus_cap_amt, RDiv(bonus_rate, Num(100)))

\* faulty variant: the bonus rate is left out of the cap
MaxBonusPoints_without_rate(card, bonus_rate) ==
    RDiv(card.bonus_cap_amt, Num(100))

\* calculate_reward_amount, line 119: max_bonus_points
MaxBonusPoints(card, bonus_rate) ==
    RMul(card.bonus_cap_amt, RDiv(bonus_rate, Num(100)))

\* faulty variant: the cap is never applied
CappedRewardPoints_uncapped(card, reward_points, base_rate, bonus_rate) ==
    reward_points

\* calculate_reward_amount, lines 115-122: the cap
CappedRewardPoints(card, reward_points, base_rate, bonus_rate) ==
    IF RGt(card.bonus_cap_amt, Zero) /\ RGt(bonus_rate, base_rate)
    THEN LET max_bonus_points == MaxBonusPoints(card, bonus_rate)
         IN IF RGt(reward_points, max_bonus_points)
            THEN LET excess == RSub(reward_points, max_bonus_points)
                 IN RAdd(max_bonus_points,
                         RDiv(RMul(excess, base_rate), bonus_rate))
            ELSE reward_points
    ELSE reward_points

\* calculate_reward_amount, lines 128-133: reward minus the fee share
NetBenefit(card, amount, reward_amount) ==
    LET monthly_spending == Num(1000)
        annual_transactions ==
            IF RGt(amount, Zero)
            THEN RDiv(RMul(Num(12), monthly_spending), amount)
            ELSE Num(1)
        annual_fee_per_txn ==
            IF RGt(annual_transactions, Zero)
            THEN RDiv(card.annual_fee, annual_transactions)
            ELSE Zero
    IN RSub(reward_amount, annual_fee_per_txn)

\* RewardCalculator.calculate_reward_amount -> CardReward
calculate_reward_amount(card, amount, category) ==
    LET base_rate == card.base_rate_pct
        bonus_rate == get_reward_rate_for_category(card, category)
        applicable_rate ==
            IF RGt(bonus_rate, base_rate) THEN bonus_rate ELSE base_rate
        reward_points ==
            CappedRewardPoints(card,
                               RawRewardPoints(card, amount, applicable_rate),
                               base_rate, bonus_rate)
        point_value == RDiv(card.point_value_cent, Num(100))
        reward_amount == RMul(reward_points, point_value)
    IN [ card_id |-> card.card_id,
         base_rate |-> base_rate,
         bonus_rate |-> bonus_rate,
         applicable_rate |-> applicable_rate,
         reward_amount |-> reward_amount,
         annual_fee |-> card.annual_fee,
         net_benefit |-> NetBenefit(card, amount, reward_amount),
         point_value_cents |-> card.point_value_cent,
         reward_type |-> card.reward_type ]

\* faulty variant: the list is ordered by net_benefit
SortKey_net_benefit(r) == r.net_benefit

\* analyze_transaction, line 165: key=lambda x: x.reward_amount
SortKey(r) == r.reward_amount

RECURSIVE InsertDesc(_, _)
\* r put into the descending list s behind every element that is not smaller
InsertDesc(s, r) ==
    IF s = <<>> THEN <<r>>
    ELSE IF RLt(SortKey(s[1]), SortKey(r)) THEN <<r>> \o s
    ELSE <<s[1]>> \o InsertDesc(Tail(s), r)

RECURSIVE SortDesc(_, _)
\* list.sort(key=..., reverse=True): stable, descending; acc is the sorted
\* prefix
SortDesc(acc, rest) ==
    IF rest = <<>> THEN acc
    ELSE SortDesc(InsertDesc(acc, rest[1]), Tail(rest))

\* faulty variant: an id that matches no row resolves to the first row
SelectById_or_first(s, card_id) ==
    IF \E i \in DOMAIN s : s[i].card_id = card_id
    THEN LET i == CHOOSE i \in DOMAIN s :
                    /\ s[i].card_id = card_id
                    /\ \A j \in 1..(i-1) : s[j].card_id # card_id
         IN Some(s[i])
    ELSE IF s # <<>> THEN Some(s[1]) ELSE Nothing

\* [r for r in all_rewards if r.card_id == current_card_id]
SelectById(s, card_id) ==
    IF \E i \in DOMAIN s : s[i].card_id = card_id
    THEN LET i == CHOOSE i \in DOMAIN s :
                    /\ s[i].card_id = card_id
                    /\ \A j \in 1..(i-1) : s[j].card_id # card_id
         IN Some(s[i])
    ELSE Nothing

\* analyze_transaction, lines 180-188: reward "before annual fee impact"
PureReward(amount, r) ==
    IF r.reward_type \in {"points", "miles"}
    THEN RMul(RMul(amount, r.applicable_rate),
              RDiv(r.point_value_cents, Num(100)))
    ELSE RMul(amount, RDiv(r.applicable_rate, Num(100)))

\* faulty variant: the count includes the cards that pay the same
IsBetter_or_equal(r, current_reward) ==
    RGe(r.reward_amount, current_reward.reward_amount)

\* analyze_transaction, line 198: r.reward_amount > current's
IsBetter(r, current_reward) ==
    RGt(r.reward_amount, current_reward.reward_amount)

\* faulty variant: an empty catalog gives an analysis without a best card
NoBestCard_silent ==
    [ op |-> "analyze_transaction", raised |-> None,
      current_card_reward |-> Nothing, best_card_reward |-> Nothing,
      best_rate |-> Zero, reward_gap_pct |-> Zero, extra_reward_amt |-> Zero,
      num_better_cards |-> 0, all_card_rewards |-> <<>> ]

\* analyze_transaction, line 168: all_rewards[0] of an empty list
NoBestCard == [ op |-> "analyze_transaction", raised |-> "IndexError" ]

\* faulty variant: the division is guarded by the amount, not by the divisor
GapGuard_tests_amount(amount, current_pure_reward) == RGt(amount, Zero)

\* analyze_transaction, line 190: ... if current_pure_reward > 0 else 0
GapGuard(amount, current_pure_reward) == RGt(current_pure_reward, Zero)

\* RewardCalculator.analyze_transaction -> RewardAnalysis;
\* all_rewards[0] of an empty catalog raises IndexError, a division by a
\* current_pure_reward of 0 raises ZeroDivisionError
analyze_transaction(catalog, amount, category, current_card_id) ==
    LET all_rewards ==
            SortDesc(<<>>, [i \in DOMAIN catalog |->
                        calculate_reward_amount(catalog[i], amount, category)])
    IN
    IF all_rewards = <<>>
    THEN NoBestCard
    ELSE
    LET best_reward == all_rewards[1]
        current_reward ==
            IF current_card_id \notin {None, ""}
            THEN SelectById(all_rewards, current_card_id)
            ELSE Nothing
        current_pure_reward == PureReward(amount, current_reward[1])
        best_pure_reward == PureReward(amount, best_reward)
    IN
    IF /\ current_reward # Nothing
       /\ GapGuard(amount, current_pure_reward)
       /\ current_pure_reward = Zero
    THEN [ op |-> "analyze_transaction", raised |-> "ZeroDivisionError" ]
    ELSE
       [ op |-> "analyze_transaction",
         raised |-> None,
         current_card_reward |-> current_reward,
         best_card_reward |-> best_reward,
         best_rate |-> best_reward.applicable_rate,
         reward_gap_pct |->
            IF current_reward # Nothing
            THEN IF GapGuard(amount, current_pure_reward)
                 THEN RMul(RDiv(RSub(best_pure_reward, current_pure_reward),
                                current_pure_reward), Num(100))
                 ELSE Zero
            ELSE Zero,
         extra_reward_amt |->
            IF current_reward # Nothing
            THEN RSub(best_pure_reward, current_pure_reward)
            ELSE best_reward.reward_amount,
         num_better_cards |->
            IF current_reward # Nothing
            THEN Cardinality({ i \in DOMAIN all_rewards :
                                 IsBetter(all_rewards[i], current_reward[1]) })
            ELSE Len(all_rewards),
         all_card_rewards |-> all_rewards ]

(***************************************************************************)
(* Inputs the selector is exercised with                                   *)
(***************************************************************************)

RECURSIVE DistinctSeqs(_, _)
\* the lists of at most n distinct elements of S
DistinctSeqs(S, n) ==
    IF n = 0 THEN { <<>> }
    ELSE LET shorter == DistinctSeqs(S, n - 1)
         IN shorter \cup
            UNION { { Append(s, x) : x \in S \ Range(s) } :
                    s \in { t \in shorter : Len(t) = n - 1 } }

\* ids that no table of the selector mentions (the tests' "card1".."card5");
\* the selector treats them alike, so lists use them in this order only
FillerIds == <<"card1", "card2", "card3", "card4", "card5", "card6">>

\* ids the selector's tables mention: a basic cashback card and a
\* specialist for dining and groceries
TableIds == { "citi_double_cash_card", "american_express_gold_card" }

\* the fillers of list s are card1, card2, ... in this order
FillersInOrder(s) ==
    LET pos == { i \in DOMAIN s : s[i] \notin TableIds }
    IN \A i \in pos :
          s[i] = FillerIds[Cardinality({ j \in pos : j <= i })]

\* owned-card lists: the lists of at most MaxOwned distinct ids
OwnedLists ==
    { s \in DistinctSeqs(TableIds \cup Range(FillerIds), MaxOwned) :
         FillersInOrder(s) }

\* best_card_id values of the reward analysis
BestCardIds ==
    { "american_express_gold_card", "chase_sapphire_preferred",
      "chase_freedom_unlimited", "citi_double_cash_card" }

\* extra_reward_amt values, in cents, on both sides of 0.02 and 0.05
ExtraCents == { -50, 1, 2, 4, 5 }

\* transaction["category"]; NoKey is a transaction without the key
TxnCategories ==
    { "dining", "travel", "groceries", "gas", "other", NoKey }

\* transaction.get("current_card_id")
CurrentCardIds == { None, "citi_double_cash_card" }

\* the fields of the reward analysis that select_action never reads
RewardNumbers ==
    { [reward_gap_pct |-> 0, num_better_cards |-> 0],
      [reward_gap_pct |-> 50, num_better_cards |-> 3] }

\* optional annual spending profiles (dollars per category)
SpendingProfiles ==
    { Nothing,
      Some([c \in {} |-> 0]),
      Some([c \in {"dining", "other"} |->
                IF c = "dining" THEN 2400 ELSE 3000]),
      Some([c \in {"dining", "other"} |->
                IF c = "dining" THEN 4000 ELSE 6000]),
      Some([c \in {"dining", "other"} |->
                IF c = "dining" THEN 12000 ELSE 13000]) }

\* the call has not returned yet
Pending == Raise("pending")

NoCall == [ called |-> FALSE ]

\* the module globals of api.py before startup: no model, no calculator,
\* an empty cooldown map, no request handled
ServerDown ==
    /\ models = {}
    /\ reward_calculator = FALSE
    /\ user_cooldowns = [u \in {} |-> 0]
    /\ now = 0
    /\ apiReq = NoCall
    /\ apiResp = NoCall

(***************************************************************************)
(* The selector: the arguments of a call are drawn, then the call runs     *)
(***************************************************************************)

SelInit ==
    /\ selReq \in [ transaction :
                        [category : TxnCategories,
                         current_card_id : CurrentCardIds],
                    reward_analysis :
                        { [best_card_id |-> b, extra_reward_amt |-> e,
                           reward_gap_pct |-> n.reward_gap_pct,
                           num_better_cards |-> n.num_better_cards] :
                          b \in BestCardIds, e \in ExtraCents,
                          n \in RewardNumbers },
                    user_cards :
                        { Nothing } \cup { Some(l) : l \in OwnedLists },
                    user_spending_pattern : SpendingProfiles ]
    /\ selResp = Pending
    /\ cards = <<>>
    /\ calcReq = NoCall
    /\ calcResp = NoCall
    /\ catalog_file = <<>>
    /\ loadResp = NoCall
    /\ rankReq = NoCall
    /\ rankResp = NoCall
    /\ ServerDown

\* selector.select_action(user_id, transaction, reward_analysis, user_cards,
\*                        user_spending_pattern), called with a list
SelectAction ==
    /\ selResp = Pending
    /\ selReq.user_cards # Nothing
    /\ selResp' = select_action(selReq.transaction, selReq.reward_analysis,
                                selReq.user_cards[1],
                                selReq.user_spending_pattern)
    /\ UNCHANGED <<selReq, cards, calcReq, calcResp>>
    /\ UNCHANGED <<catalog_file, loadResp, rankReq, rankResp>>
    /\ UNCHANGED apiVars

\* select_actions(user_id, txn, reward_table, user_cards, user_spending):
\* the module-level entry point, user_cards may be None
SelectActions ==
    /\ selResp = Pending
    /\ selResp' = select_actions(selReq.transaction, selReq.reward_analysis,
                                 selReq.user_cards,
                                 selReq.user_spending_pattern)
    /\ UNCHANGED <<selReq, cards, calcReq, calcResp>>
    /\ UNCHANGED <<catalog_file, loadResp, rankReq, rankResp>>
    /\ UNCHANGED apiVars

SelNext == SelectAction \/ SelectActions

SelSpec == SelInit /\ [][SelNext]_vars

(***************************************************************************)
(* Catalog rows and transactions the calculator is exercised with          *)
(***************************************************************************)

\* a catalog row after _load_card_catalog converted its fields
Card(card_id, reward_type, base_rate_pct, bonus_categories, bonus_cap_amt, annual_fee, point_value_cent) ==
    [ card_id |-> card_id, reward_type |-> reward_type,
      base_rate_pct |-> base_rate_pct, bonus_categories |-> bonus_categories,
      bonus_cap_amt |-> bonus_cap_amt, annual_fee |-> annual_fee,
      point_value_cent |-> point_value_cent ]

NoBonus == [c \in {} |-> Zero]

\* rows of the shipped catalog (scripts/simple_card_catalog.py CARD_DATA)
CitiDoubleCash ==
    Card("citi_double_cash_card", "cashback", Num(2), NoBonus, Zero, Zero,
         Num(1))
AmexGold ==
    Card("american_express_gold_card", "points", Num(1),
         [c \in {"dining", "groceries"} |-> Num(4)], Num(25000), Num(250),
         Dec(18, 10))
BlueCashPreferred ==
    Card("blue_cash_preferred_card", "cashback", Num(1),
         [c \in {"groceries", "entertainment", "gas"} |->
              IF c = "groceries" THEN Num(6) ELSE Num(3)],
         Num(6000), Num(95), Num(1))
VentureRewards ==
    Card("capital_one_venture_rewards", "miles", Num(2), NoBonus, Zero,
         Num(95), Num(1))
\* further rows a catalog file may hold: a cashback card whose point value
\* is a whole dollar and whose bonus cap is small, a card whose dining entry
\* is below its base rate, a card that pays nothing
CappedCashback ==
    Card("capped_cashback_card", "cashback", Num(1),
         [c \in {"dining", "shopping"} |->
              IF c = "dining" THEN Num(5) ELSE Num(3)],
         Num(100), Zero, Num(100))
LowBonus ==
    Card("low_bonus_card", "cashback", Num(2),
         [c \in {"dining", "rotating"} |->
              IF c = "dining" THEN Num(1) ELSE Num(5)],
         Num(100), Zero, Num(100))
ZeroRate ==
    Card("zero_rate_card", "cashback", Zero, NoBonus, Zero, Num(95), Num(1))

CardPool ==
    { CitiDoubleCash, AmexGold, BlueCashPreferred, VentureRewards,
      CappedCashback, LowBonus, ZeroRate }

\* bound on the number of rows of a catalog
MaxCatalog == 3

\* the catalogs: lists of at most MaxCatalog different rows
Catalogs == DistinctSeqs(CardPool, MaxCatalog)

\* transaction amounts, in dollars
Amounts == { Zero, Num(100), Num(250), Num(300) }

\* transaction categories
Categories == { "dining", "gas", "online_shopping", "rotating", "other" }

\* current_card_id arguments for a catalog: None, an id the catalog does
\* not hold, and the id of each of its rows
CurrentIds(catalog) ==
    { None, "non_existent_card" } \cup
    { catalog[i].card_id : i \in DOMAIN catalog }

(***************************************************************************)
(* The calculator: a catalog is loaded and the arguments of a call are     *)
(* drawn, then the call runs                                               *)
(***************************************************************************)

CalcInit ==
    /\ cards \in Catalogs
    /\ calcReq \in [ amount : Amounts, category : Categories,
                     current_card_id : CurrentIds(cards) ]
    /\ calcResp = NoCall
    /\ selReq = NoCall
    /\ selResp = Pending
    /\ catalog_file = <<>>
    /\ loadResp = NoCall
    /\ rankReq = NoCall
    /\ rankResp = NoCall
    /\ ServerDown

\* calc.analyze_transaction(amount, category, current_card_id)
AnalyzeTransaction ==
    /\ calcResp = NoCall
    /\ calcResp' = analyze_transaction(cards, calcReq.amount,
                                       calcReq.category,
                                       calcReq.current_card_id)
    /\ UNCHANGED <<cards, calcReq, selReq, selResp>>
    /\ UNCHANGED <<catalog_file, loadResp, rankReq, rankResp>>
    /\ UNCHANGED apiVars

\* calc.calculate_reward_amount(card, amount, category) for a catalog row
CalculateRewardAmount ==
    /\ calcResp = NoCall
    /\ \E i \in DOMAIN cards :
          calcResp' = [ op |-> "calculate_reward_amount",
                        raised |-> None,
                        card |-> cards[i],
                        reward |-> calculate_reward_amount(
                                       cards[i], calcReq.amount,
                                       calcReq.category) ]
    /\ UNCHANGED <<cards, calcReq, selReq, selResp>>
    /\ UNCHANGED <<catalog_file, loadResp, rankReq, rankResp>>
    /\ UNCHANGED apiVars

CalcNext == AnalyzeTransaction \/ CalculateRewardAmount

CalcSpec == CalcInit /\ [][CalcNext]_vars

(***************************************************************************)
(* Loading the catalog: RewardCalculator(catalog_path)                     *)
(***************************************************************************)

\* json.loads on the texts a bonus_categories cell is tried with; Nothing is
\* json.JSONDecodeError
json_loads(text) ==
    CASE text = "{}" -> Some(NoBonus)
      [] text = "{\"dining\": 4.0}" -> Some([c \in {"dining"} |-> Num(4)])
      [] OTHER -> Nothing

\* float() on the texts a numeric cell is tried with; Nothing is ValueError
float(text) ==
    CASE text = "0" -> Some(Zero)
      [] text = "1.0" -> Some(Num(1))
      [] text = "95" -> Some(Num(95))
      [] OTHER -> Nothing

\* the four cells _load_card_catalog converts, in the order of lines 70-73
NumericFields ==
    <<"annual_fee", "base_rate_pct", "point_value_cent", "bonus_cap_amt">>

\* some float(row[...]) of lines 70-73 raises
FloatRaises(row) ==
    \E i \in DOMAIN NumericFields : float(row[NumericFields[i]]) = Nothing

\* _load_card_catalog, lines 63-75: the row as it is appended
ConvertRow(row) ==
    [ card_id |-> row.card_id,
      reward_type |-> row.reward_type,
      bonus_categories |->
          IF json_loads(row.bonus_categories) # Nothing
          THEN json_loads(row.bonus_categories)[1]
          ELSE NoBonus,
      annual_fee |-> float(row.annual_fee)[1],
      base_rate_pct |-> float(row.base_rate_pct)[1],
      point_value_cent |-> float(row.point_value_cent)[1],
      bonus_cap_amt |-> float(row.bonus_cap_amt)[1] ]

\* RewardCalculator._load_card_catalog: the ValueError of a float() leaves
\* the loop and the constructor
_load_card_catalog(rows) ==
    IF \E i \in DOMAIN rows : FloatRaises(rows[i])
    THEN [ op |-> "_load_card_catalog", raised |-> "ValueError" ]
    ELSE [ op |-> "_load_card_catalog", raised |-> None,
           cards |-> [i \in DOMAIN rows |-> ConvertRow(rows[i])] ]

\* card ids of the rows of a file, by position
RowIds == <<"card_a", "card_b", "card_c", "card_d">>

\* texts of the bonus_categories cell: two that decode, one that does not
BonusTexts == { "{}", "{\"dining\": 4.0}", "not json" }

\* texts of the annual_fee cell: two numbers and one that is none
FeeTexts == { "0", "95", "n/a" }

\* bound on the number of rows of a catalog file
MaxRows == 3

\* a row as csv.DictReader yields it: every cell is text
RawRow(card_id, bonus_text, fee_text) ==
    [ card_id |-> card_id, reward_type |-> "cashback",
      bonus_categories |-> bonus_text, annual_fee |-> fee_text,
      base_rate_pct |-> "1.0", point_value_cent |-> "1.0",
      bonus_cap_amt |-> "0" ]

\* the catalog files: at most MaxRows rows with different ids
CatalogFiles ==
    UNION { { [i \in 1..n |-> RawRow(RowIds[i], b[i], f[i])] :
              b \in [1..n -> BonusTexts], f \in [1..n -> FeeTexts] } :
            n \in 0..MaxRows }

LoadInit ==
    /\ catalog_file \in CatalogFiles
    /\ loadResp = NoCall
    /\ cards = <<>>
    /\ calcReq = NoCall
    /\ calcResp = NoCall
    /\ selReq = NoCall
    /\ selResp = Pending
    /\ rankReq = NoCall
    /\ rankResp = NoCall
    /\ ServerDown

\* RewardCalculator.__init__: self.cards = self._load_card_catalog(path)
LoadCardCatalog ==
    /\ loadResp = NoCall
    /\ loadResp' = _load_card_catalog(catalog_file)
    /\ cards' = IF loadResp'.raised = None THEN loadResp'.cards ELSE cards
    /\ UNCHANGED <<catalog_file, calcReq, calcResp, selReq, selResp>>
    /\ UNCHANGED <<rankReq, rankResp>>
    /\ UNCHANGED apiVars

LoadNext == LoadCardCatalog

LoadSpec == LoadInit /\ [][LoadNext]_vars

(***************************************************************************)
(* Ranking: calculate_personalized_ranking (src/utils/enhanced_ranking.py) *)
(* and RewardCalculator.get_user_card_recommendations                      *)
(***************************************************************************)

RMin(a, b) == IF RLe(a, b) THEN a ELSE b
RMax(a, b) == IF RGe(a, b) THEN a ELSE b

RECURSIVE RSumOver(_, _)
\* the sum of f[k] over the keys, f[k] a number
RSumOver(f, keys) ==
    IF keys = {} THEN Zero
    ELSE LET k == CHOOSE k \in keys : TRUE
         IN RAdd(f[k], RSumOver(f, keys \ {k}))

RECURSIVE InsertPairDesc(_, _)
\* the pair p = <<key, value>> put into the descending list s behind every
\* pair whose key is not smaller
InsertPairDesc(s, p) ==
    IF s = <<>> THEN <<p>>
    ELSE IF RLt(s[1][1], p[1]) THEN <<p>> \o s
    ELSE <<s[1]>> \o InsertPairDesc(Tail(s), p)

RECURSIVE SortPairsDesc(_, _)
\* list.sort(key=..., reverse=True) on <<key, value>> pairs: stable
SortPairsDesc(acc, rest) ==
    IF rest = <<>> THEN acc
    ELSE SortPairsDesc(InsertPairDesc(acc, rest[1]), Tail(rest))

\* the list s ordered by Key, descending, equal keys in their order in s
SortedDescBy(s, keys) ==
    LET sorted == SortPairsDesc(<<>>, [i \in DOMAIN s |-> <<keys[i], s[i]>>])
    IN [i \in DOMAIN sorted |-> sorted[i][2]]

\* faulty variant: only the first owned card is skipped
IsOwned_first_only(card, user_cards) ==
    user_cards # <<>> /\ card.card_id = user_cards[1]

\* card["card_id"] in user_cards
IsOwned(card, user_cards) == card.card_id \in Range(user_cards)

\* the rows of a list the user does not own, in their order
Candidates(card_catalog, user_cards) ==
    LET Keep(card) == ~IsOwned(card, user_cards)
    IN SelectSeq(card_catalog, Keep)

\* enhanced_ranking.py lines 47-50: the rate of a category
RankingRate(card, category) ==
    IF category \in DOMAIN card.bonus_categories
    THEN card.bonus_categories[category]
    ELSE card.base_rate_pct

\* enhanced_ranking.py lines 53-60: category_reward
category_reward(card, monthly_amount, rate) ==
    IF card.reward_type = "cashback"
    THEN RMul(RMul(monthly_amount, Num(12)), RDiv(rate, Num(100)))
    ELSE RMul(RMul(RMul(monthly_amount, Num(12)), rate),
              RDiv(card.point_value_cent, Num(100)))

\* enhanced_ranking.py lines 45-63: annual_reward
annual_reward(card, user_spending_pattern) ==
    RSumOver([c \in DOMAIN user_spending_pattern |->
                 category_reward(card, user_spending_pattern[c],
                                 RankingRate(card, c))],
             DOMAIN user_spending_pattern)

\* calculate_composite_score, line 106
benefit_score(net_benefit) ==
    RMul(RMin(RDiv(net_benefit, Num(1000)), Num(1)), Dec(5, 10))

\* calculate_composite_score, lines 109-113
effectiveness_score(net_benefit, annual_fee, total_spending) ==
    IF RGt(total_spending, Zero)
    THEN RMul(RMin(RMul(RDiv(RAdd(net_benefit, annual_fee), total_spending),
                        Num(10)), Num(1)), Dec(3, 10))
    ELSE Zero

\* calculate_composite_score, lines 116-119
fee_penalty(annual_fee, total_spending) ==
    IF RGt(total_spending, Num(36000))
    THEN RMin(RDiv(annual_fee, Num(1000)), Dec(1, 10))
    ELSE RMin(RDiv(annual_fee, Num(500)), Dec(2, 10))

\* calculate_composite_score, line 122
bonus_score(signup_bonus) == RMin(RDiv(signup_bonus, Num(2000)), Dec(2, 10))

\* faulty variant: the score is returned without the final clamp
calculate_composite_score_unclamped(net_benefit, annual_fee, total_spending, signup_bonus) ==
    RSub(RAdd(RAdd(benefit_score(net_benefit),
                   effectiveness_score(net_benefit, annual_fee,
                                       total_spending)),
              bonus_score(signup_bonus)),
         fee_penalty(annual_fee, total_spending))

\* enhanced_ranking.calculate_composite_score
calculate_composite_score(net_benefit, annual_fee, total_spending, signup_bonus) ==
    LET score ==
            RSub(RAdd(RAdd(benefit_score(net_benefit),
                           effectiveness_score(net_benefit, annual_fee,
                                               total_spending)),
                      bonus_score(signup_bonus)),
                 fee_penalty(annual_fee, total_spending))
    IN RMax(Dec(1, 10), RMin(Num(1), score))

\* enhanced_ranking.py lines 33-88: the entry appended for a card
RankingEntry(card, user_spending_pattern) ==
    LET reward == annual_reward(card, user_spending_pattern)
        net_benefit == RSub(reward, card.annual_fee)
        total_spending ==
            RMul(RSumOver(user_spending_pattern, DOMAIN user_spending_pattern),
                 Num(12))
    IN [ card_id |-> card.card_id,
         ranking_score |->
            calculate_composite_score(net_benefit, card.annual_fee,
                                      total_spending,
                                      card.signup_bonus_value),
         annual_fee |-> card.annual_fee,
         signup_bonus |-> card.signup_bonus_value,
         annual_reward |-> reward,
         net_benefit |-> net_benefit,
         category_breakdown |->
            [c \in DOMAIN user_spending_pattern |->
                category_reward(card, user_spending_pattern[c],
                                RankingRate(card, c))] ]

\* enhanced_ranking.calculate_personalized_ranking; user_cards is optional
calculate_personalized_ranking(user_spending_pattern, card_catalog, user_cards) ==
    LET owned == IF user_cards = Nothing THEN <<>> ELSE user_cards[1]
        kept == Candidates(card_catalog, owned)
        rankings == [i \in DOMAIN kept |->
                        RankingEntry(kept[i], user_spending_pattern)]
    IN SortedDescBy(rankings,
                    [i \in DOMAIN rankings |-> rankings[i].ranking_score])
\* get_user_card_recommendations, lines 243-251: total_annual_reward; the
\* rate is divided by 100 for every reward type
total_annual_reward(card, user_spending_pattern) ==
    LET spent == { c \in DOMAIN user_spending_pattern :
                     RGt(user_spending_pattern[c], Zero) }
    IN RSumOver([c \in spent |->
                    RMul(RMul(user_spending_pattern[c],
                              RDiv(get_reward_rate_for_category(card, c),
                                   Num(100))),
                         RDiv(card.point_value_cent, Num(100)))],
                spent)

\* RewardCalculator.get_user_card_recommendations: (card_id,
\* net_annual_benefit) of the top_n cards; the reasoning text is left out
get_user_card_recommendations(catalog, user_spending_pattern, current_cards, top_n) ==
    LET kept == Candidates(catalog, current_cards)
        card_scores ==
            [i \in DOMAIN kept |->
                [ card_id |-> kept[i].card_id,
                  net_annual_benefit |->
                      RSub(total_annual_reward(kept[i], user_spending_pattern),
                           kept[i].annual_fee) ]]
        sorted == SortedDescBy(card_scores,
                               [i \in DOMAIN card_scores |->
                                   card_scores[i].net_annual_benefit])
    IN SubSeq(sorted, 1, IF top_n < Len(sorted) THEN top_n ELSE Len(sorted))

\* a catalog row with its signup_bonus_value column
WithSignup(card, signup_bonus_value) ==
    [ card_id |-> card.card_id, reward_type |-> card.reward_type,
      base_rate_pct |-> card.base_rate_pct,
      bonus_categories |-> card.bonus_categories,
      bonus_cap_amt |-> card.bonus_cap_amt, annual_fee |-> card.annual_fee,
      point_value_cent |-> card.point_value_cent,
      signup_bonus_value |-> signup_bonus_value ]

\* further rows of the shipped catalog
WellsFargoActiveCash ==
    Card("wells_fargo_active_cash_card", "cashback", Num(2), NoBonus, Zero,
         Zero, Num(1))
FreedomUnlimited ==
    Card("chase_freedom_unlimited", "cashback", Dec(15, 10), NoBonus, Zero,
         Zero, Num(1))
Quicksilver ==
    Card("capital_one_quicksilver", "cashback", Dec(15, 10), NoBonus, Zero,
         Zero, Num(1))

\* the rows the ranking is exercised with: rows of the shipped catalog and
\* the row whose dining entry is below its base rate
RankPool ==
    { WithSignup(CitiDoubleCash, Num(200)),
      WithSignup(LowBonus, Num(200)),
      WithSignup(WellsFargoActiveCash, Num(200)),
      WithSignup(AmexGold, Num(1000)),
      WithSignup(VentureRewards, Num(600)),
      WithSignup(FreedomUnlimited, Num(200)),
      WithSignup(Quicksilver, Num(200)) }

\* the catalogs handed to the ranking
RankCatalogs == DistinctSeqs(RankPool, MaxCatalog)

\* spending per category: none, $500 and $4000 a month in total
RankProfiles ==
    { [c \in {} |-> Zero],
      [c \in {"dining", "other"} |->
          IF c = "dining" THEN Num(200) ELSE Num(300)],
      [c \in {"dining", "groceries", "other"} |->
          IF c = "other" THEN Num(2000) ELSE Num(1000)] }

\* the owned-card argument: None, no card, one card, two cards
RankOwned ==
    { Nothing, Some(<<>>), Some(<<"citi_double_cash_card">>),
      Some(<<"american_express_gold_card", "citi_double_cash_card">>) }

\* top_n of get_user_card_recommendations
TopNs == { 1, 3 }

RankInit ==
    /\ rankReq \in [ user_spending_pattern : RankProfiles,
                     card_catalog : RankCatalogs,
                     user_cards : RankOwned,
                     top_n : TopNs ]
    /\ rankResp = NoCall
    /\ ServerDown
    /\ cards = <<>>
    /\ calcReq = NoCall
    /\ calcResp = NoCall
    /\ selReq = NoCall
    /\ selResp = Pending
    /\ catalog_file = <<>>
    /\ loadResp = NoCall

\* calculate_personalized_ranking(user_spending_pattern, card_catalog,
\*                                user_cards)
CalculatePersonalizedRanking ==
    /\ rankResp = NoCall
    /\ rankResp' =
          [ op |-> "calculate_personalized_ranking",
            result |-> calculate_personalized_ranking(
                           rankReq.user_spending_pattern,
                           rankReq.card_catalog, rankReq.user_cards) ]
    /\ UNCHANGED <<rankReq, cards, calcReq, calcResp, selReq, selResp>>
    /\ UNCHANGED <<catalog_file, loadResp>>
    /\ UNCHANGED apiVars

\* calc.get_user_card_recommendations(user_id, user_spending_pattern,
\*                                    current_cards, top_n)
GetUserCardRecommendations ==
    /\ rankResp = NoCall
    /\ rankReq.user_cards # Nothing
    /\ rankResp' =
          [ op |-> "get_user_card_recommendations",
            result |-> get_user_card_recommendations(
                           rankReq.card_catalog,
                           rankReq.user_spending_pattern,
                           rankReq.user_cards[1], rankReq.top_n) ]
    /\ UNCHANGED <<rankReq, cards, calcReq, calcResp, selReq, selResp>>
    /\ UNCHANGED <<catalog_file, loadResp>>
    /\ UNCHANGED apiVars

RankNext == CalculatePersonalizedRanking \/ GetUserCardRecommendations

RankSpec == RankInit /\ [][RankNext]_vars

(***************************************************************************)
(* The calculator over the shipped catalog                                 *)
(***************************************************************************)

\* the rows of CARD_DATA not defined above
SapphirePreferred ==
    Card("chase_sapphire_preferred", "points", Num(1),
         [c \in {"travel", "dining"} |-> Num(2)], Zero, Num(95), Dec(15, 10))
DiscoverIt ==
    Card("discover_it_cash_back", "cashback", Num(1),
         [c \in {"rotating"} |-> Num(5)], Num(1500), Zero, Num(1))
SapphireReserve ==
    Card("chase_sapphire_reserve", "points", Num(1),
         [c \in {"travel", "dining"} |-> Num(3)], Zero, Num(550), Dec(15, 10))
InkBusinessPreferred ==
    Card("chase_ink_business_preferred", "points", Num(1),
         [c \in {"travel", "shopping"} |-> Num(3)], Num(150000), Num(95),
         Dec(15, 10))
DiscoverItStudent ==
    Card("discover_it_student_cash_back", "cashback", Num(1),
         [c \in {"rotating"} |-> Num(5)], Num(1500), Zero, Num(1))

\* CARD_DATA: the twelve rows of data/card_catalog.csv, in file order
ShippedCatalog ==
    << WithSignup(SapphirePreferred, Num(750)),
       WithSignup(CitiDoubleCash, Num(200)),
       WithSignup(AmexGold, Num(1000)),
       WithSignup(DiscoverIt, Num(200)),
       WithSignup(VentureRewards, Num(600)),
       WithSignup(FreedomUnlimited, Num(200)),
       WithSignup(BlueCashPreferred, Num(350)),
       WithSignup(WellsFargoActiveCash, Num(200)),
       WithSignup(SapphireReserve, Num(1000)),
       WithSignup(Quicksilver, Num(200)),
       WithSignup(InkBusinessPreferred, Num(1000)),
       WithSignup(DiscoverItStudent, Num(100)) >>

\* transaction categories of the shipped catalog's bonus tables
ShippedCategories == Categories \cup { "groceries", "travel" }

\* RewardCalculator() with the default catalog path, then the arguments of
\* one call
ShippedInit ==
    /\ cards = ShippedCatalog
    /\ calcReq \in [ amount : Amounts, category : ShippedCategories,
                     current_card_id : CurrentIds(cards) ]
    /\ calcResp = NoCall
    /\ selReq = NoCall
    /\ selResp = Pending
    /\ catalog_file = <<>>
    /\ loadResp = NoCall
    /\ rankReq = NoCall
    /\ rankResp = NoCall
    /\ ServerDown

ShippedSpec == ShippedInit /\ [][CalcNext]_vars

(***************************************************************************)
(* The serving layer (src/api.py): module globals and the four endpoints   *)
(***************************************************************************)

\* every variable of the engine components; the endpoints leave them alone
engineVars ==
    <<selReq, selResp, cards, calcReq, calcResp, catalog_file, loadResp,
      rankReq, rankResp>>

\* the model files load_models looks for
ModelNames == { "trigger_classifier", "card_ranker" }

\* the cooldown_minutes trigger_classify passes to check_user_cooldown
CooldownMinutes == 60

\* the clock advances in steps of MinutesPerTick, at most MaxTicks times
MinutesPerTick == 30
MaxTicks == 3

\* lines 170-176 of check_user_cooldown, which no call reaches: the user has
\* an entry and it is younger than the cooldown period
InCooldownWindow(user_id, cooldown_minutes) ==
    /\ user_id \in DOMAIN user_cooldowns
    /\ now - user_cooldowns[user_id] < cooldown_minutes

\* check_user_cooldown: its first statement is `return False`
\* ("Temporarily disable cooldown for testing", lines 167-168)
check_user_cooldown(user_id, cooldown_minutes) == FALSE

\* update_user_cooldown: user_cooldowns[user_id] = datetime.now()
update_user_cooldown(user_id) ==
    [u \in DOMAIN user_cooldowns \cup {user_id} |->
        IF u = user_id THEN now ELSE user_cooldowns[u]]

\* load_card_catalog(): the rows of data/card_catalog.csv, [] without a file
load_card_catalog == cards

\* raise HTTPException(status_code=..., detail=...)
HTTPException(status_code, detail) ==
    [ raised |-> "HTTPException", status_code |-> status_code,
      detail |-> detail, body |-> Nothing ]

\* a handler returned its response model
Ok(body) ==
    [ raised |-> None, status_code |-> 200, detail |-> "",
      body |-> Some(body) ]

\* an exception other than HTTPException raised inside a handler
Uncaught(exc) ==
    [ raised |-> exc, status_code |-> 0, detail |-> exc, body |-> Nothing ]

\* `except Exception as e: raise HTTPException(status_code=500, ...)` around
\* a handler's try block: HTTPException is an Exception, so whatever the
\* block raises leaves as a 500 whose detail starts with the prefix
ExceptException(outcome, prefix) ==
    IF outcome.raised # None THEN HTTPException(500, prefix) ELSE outcome

\* trigger_classify, lines 288-313: the business rule that triggers, 0 if
\* none does
TriggerRule(amount, analysis) ==
    LET gap == analysis.reward_gap_pct
        extra == analysis.extra_reward_amt
    IN IF RGt(gap, Num(200)) THEN 1
       ELSE IF RGt(gap, Num(100)) /\ RGt(extra, Dec(5, 100)) THEN 2
       ELSE IF RGt(extra, Dec(15, 100)) THEN 3
       ELSE IF /\ RGt(amount, Num(100))
               /\ RGt(gap, Num(50))
               /\ RGt(extra, Dec(10, 100)) THEN 4
       ELSE IF /\ RGt(gap, Num(75))
               /\ RGt(extra, Dec(5, 100))
               /\ RGt(amount, Num(30)) THEN 5
       ELSE 0

\* the confidence the rule sets
TriggerConfidence(rule, analysis) ==
    CASE rule = 1 ->
            RMin(Dec(95, 100),
                 RAdd(Dec(7, 10), RDiv(analysis.reward_gap_pct, Num(500))))
      [] rule = 2 ->
            RMin(Dec(85, 100),
                 RAdd(Dec(6, 10), RDiv(analysis.reward_gap_pct, Num(300))))
      [] rule = 3 -> Dec(8, 10)
      [] rule = 4 -> Dec(7, 10)
      [] rule = 5 -> Dec(65, 100)
      [] OTHER -> Dec(5, 10)

\* the reasoning text, as the template its f-string fills in
TriggerReasoning(rule, analysis) ==
    CASE rule = 0 -> "No significant benefit found"
      [] rule = 3 ->
            "Worth considering: ${extra_reward_amt} more in rewards for {category}"
      [] OTHER ->
            IF analysis.best_card_reward.reward_type \in {"points", "miles"}
            THEN "Earns {best_rate}x {reward_type} on {category} vs your current {current_rate}x"
            ELSE "Earns {best_rate}% cashback on {category} vs your current {current_rate}%"

\* faulty variant: the cooldown is updated by every analysed request
UpdatesCooldown_always(should_trigger) == TRUE

\* `if should_trigger:` of line 318
UpdatesCooldown(should_trigger) == should_trigger

\* trigger_classify, lines 288-327: the decision taken from the analysis and
\* the rule that triggered, and the cooldown map it leaves
TriggerDecision(request, analysis, rule) ==
    [ response |->
         Ok([ recommend_flag |-> rule # 0,
              confidence_score |-> TriggerConfidence(rule, analysis),
              suggested_card_id |-> analysis.best_card_reward.card_id,
              extra_reward |-> analysis.extra_reward_amt,
              reasoning |-> TriggerReasoning(rule, analysis) ]),
      user_cooldowns |->
         IF UpdatesCooldown(rule # 0)
         THEN update_user_cooldown(request.user_id)
         ELSE user_cooldowns ]

\* trigger_classify, lines 258-330: the try block once analyze_transaction
\* has returned or raised
TriggerAnalysed(request, analysis) ==
    IF analysis.raised # None
    THEN [ response |->
              ExceptException(Uncaught(analysis.raised),
                              "Classification error"),
           user_cooldowns |-> user_cooldowns ]
    ELSE TriggerDecision(request, analysis,
                         TriggerRule(request.amount, analysis))

\* POST /trigger-classify: the response and the cooldown map it leaves
trigger_classify(request) ==
    IF check_user_cooldown(request.user_id, CooldownMinutes)
    THEN [ response |->
              Ok([ recommend_flag |-> FALSE, confidence_score |-> Zero,
                   suggested_card_id |-> "", extra_reward |-> Zero,
                   reasoning |-> "User in cooldown period" ]),
           user_cooldowns |-> user_cooldowns ]
    ELSE IF "trigger_classifier" \notin models
    THEN [ response |->
              HTTPException(503, "Trigger classifier not available"),
           user_cooldowns |-> user_cooldowns ]
    ELSE IF ~reward_calculator
    THEN [ response |->
              HTTPException(503, "Reward calculator not available"),
           user_cooldowns |-> user_cooldowns ]
    ELSE TriggerAnalysed(request,
                         analyze_transaction(cards, request.amount,
                                             request.category,
                                             request.current_card_id))

\* the pattern personalized_ranking uses when the request carries none
DefaultSpendingPattern ==
    [c \in {"dining", "groceries", "gas", "travel", "other"} |->
        CASE c = "dining" -> Num(600)
          [] c = "groceries" -> Num(400)
          [] c = "gas" -> Num(200)
          [] c = "travel" -> Num(150)
          [] OTHER -> Num(1650)]

\* personalized_ranking, lines 436-466: the response built from the entries
\* it returns
RankingResponse(user_id, top_cards) ==
    Ok([ ranked_cards |-> top_cards,
         user_id |-> user_id,
         ranking_score |->
            IF top_cards # <<>>
            THEN RDiv(RSumOver([i \in DOMAIN top_cards |->
                                   top_cards[i].ranking_score],
                               DOMAIN top_cards),
                      Num(Len(top_cards)))
            ELSE Zero ])

\* personalized_ranking, lines 434-450: the five best entries, with the
\* fields of the response model
TopCards(ranked) ==
    [i \in 1..(IF Len(ranked) < 5 THEN Len(ranked) ELSE 5) |->
        [ card_id |-> ranked[i].card_id,
          ranking_score |-> ranked[i].ranking_score,
          annual_fee |-> ranked[i].annual_fee,
          signup_bonus |-> ranked[i].signup_bonus ]]

\* POST /personalized-ranking: the scoring inlined at lines 362-432 is that
\* of enhanced_ranking.py; the five best entries are returned
personalized_ranking(request) ==
    IF "card_ranker" \notin models
    THEN HTTPException(503, "Card ranker not available")
    ELSE ExceptException(
       IF load_card_catalog = <<>>
       THEN HTTPException(503, "Card catalog not available")
       ELSE RankingResponse(
               request.user_id,
               TopCards(calculate_personalized_ranking(
                           IF Truthy(request.spending_pattern)
                           THEN request.spending_pattern[1]
                           ELSE DefaultSpendingPattern,
                           load_card_catalog,
                           request.user_cards))),
       "Ranking error")

\* estimate_rewards, lines 507-511: the mock category multiplier
category_multiplier(category) ==
    IF category \in {"dining", "travel"} THEN Num(2)
    ELSE IF category \in {"groceries", "gas"} THEN Dec(15, 10)
    ELSE Num(1)

\* POST /estimate-rewards
estimate_rewards(request) ==
    IF ~reward_calculator
    THEN HTTPException(503, "Reward calculator not available")
    ELSE ExceptException(
       LET catalog == load_card_catalog
           found == { i \in DOMAIN catalog :
                        catalog[i].card_id = request.card_id }
       IN IF found = {}
          THEN HTTPException(404, "Card not found")
          ELSE
          LET target_card ==
                 catalog[CHOOSE i \in found : \A j \in found : i <= j]
              projected == request.projected_spending
              spent == { c \in DOMAIN projected : RGt(projected[c], Zero) }
              category_rewards ==
                 [c \in spent |->
                     RMul(RMul(projected[c],
                               RDiv(target_card.base_rate_pct, Num(100))),
                          category_multiplier(c))]
              months ==
                 IF request.time_horizon_months \in {Nothing, Some(0)}
                 THEN 12 ELSE request.time_horizon_months[1]
          IN Ok([ estimated_annual_reward |->
                     RMul(RSumOver(category_rewards, spent),
                          RDiv(Num(12), Num(months))),
                  category_breakdown |-> category_rewards,
                  compared_to_current |-> None ]),
       "Estimation error")

\* POST /optimize-portfolio: the whole handler is inside the try block
optimize_portfolio(request) ==
    ExceptException(
       LET catalog == load_card_catalog
       IN IF catalog = <<>>
          THEN HTTPException(503, "Card catalog not available")
          ELSE
          LET InCurrent(card) == card.card_id \in Range(request.current_cards)
              NotCurrent(card) == ~InCurrent(card)
              current_cards == SelectSeq(catalog, InCurrent)
          IN IF current_cards = <<>>
             THEN HTTPException(400, "No valid current cards found")
             ELSE
             LET pattern == request.spending_pattern
                 total_spending == RSumOver(pattern, DOMAIN pattern)
                 total_fees ==
                    RSumOver([i \in DOMAIN current_cards |->
                                 current_cards[i].annual_fee],
                             DOMAIN current_cards)
                 fee_burden ==
                    IF RGt(total_spending, Zero)
                    THEN RDiv(total_fees, total_spending) ELSE Zero
                 current_score ==
                    RSub(Dec(6, 10),
                         RMin(RMul(fee_burden, Dec(5, 10)), Dec(3, 10)))
                 available == SelectSeq(catalog, NotCurrent)
                 adds ==
                    IF Len(current_cards) < 3
                    THEN [i \in 1..(IF Len(available) < 2
                                    THEN Len(available) ELSE 2) |->
                             [ action |-> "add",
                               card_id |-> available[i].card_id,
                               impact_score |-> Dec(15, 100) ]]
                    ELSE <<>>
                 IsHighFee(card) == RGt(card.annual_fee, Num(200))
                 high_fee_cards == SelectSeq(current_cards, IsHighFee)
                 switches ==
                    IF /\ RGt(total_fees, RMul(total_spending, Dec(2, 100)))
                       /\ high_fee_cards # <<>>
                    THEN << [ action |-> "switch",
                              card_id |-> high_fee_cards[1].card_id,
                              impact_score |-> Dec(20, 100) ] >>
                    ELSE <<>>
                 recommendations == adds \o switches
                 optimized_score ==
                    RMin(RAdd(current_score,
                              RSumOver([i \in DOMAIN recommendations |->
                                           recommendations[i].impact_score],
                                       DOMAIN recommendations)),
                         Num(1))
             IN Ok([ recommendations |-> recommendations,
                     current_portfolio_score |-> current_score,
                     optimized_portfolio_score |-> optimized_score ]),
       "Optimization error")

(***************************************************************************)
(* Requests the endpoints are exercised with                               *)
(***************************************************************************)

UserIds == { "user_a", "user_b" }

\* TransactionRequest: user_id, amount, category, current_card_id
TransactionRequests ==
    [ user_id : UserIds, amount : { Num(20), Num(250) },
      category : { "dining", "other" },
      current_card_id :
         { None, "citi_double_cash_card", "american_express_gold_card" } ]

\* RankingRequest: user_id, user_cards, spending_pattern
RankingRequests ==
    [ user_id : { "user_a" },
      user_cards : { Nothing, Some(<<"citi_double_cash_card">>) },
      spending_pattern :
         { Nothing,
           Some([c \in {"dining", "other"} |->
                    IF c = "dining" THEN Num(200) ELSE Num(300)]) } ]

\* RewardEstimationRequest: user_id, card_id, projected_spending,
\* time_horizon_months
RewardEstimationRequests ==
    [ user_id : { "user_a" },
      card_id : { "citi_double_cash_card", "non_existent_card" },
      projected_spending :
         { [c \in {"dining", "other"} |->
               IF c = "dining" THEN Num(200) ELSE Zero] },
      time_horizon_months : { Nothing, Some(6) } ]

\* PortfolioOptimizationRequest: user_id, current_cards, spending_pattern
PortfolioOptimizationRequests ==
    [ user_id : { "user_a" },
      current_cards :
         { <<>>, <<"non_existent_card">>, <<"citi_double_cash_card">>,
           <<"american_express_gold_card", "chase_sapphire_reserve">> },
      spending_pattern :
         { [c \in {"dining", "other"} |->
               IF c = "dining" THEN Num(200) ELSE Num(300)],
           [c \in {"dining"} |-> Zero] } ]

\* a data/card_catalog.csv holding three rows of the shipped catalog
ApiCatalog ==
    << WithSignup(CitiDoubleCash, Num(200)),
       WithSignup(AmexGold, Num(1000)),
       WithSignup(SapphireReserve, Num(1000)) >>

\* the state after startup(): each model file loaded or not, the calculator
\* built or not, the catalog file with rows or without
ApiInit ==
    /\ models \in SUBSET ModelNames
    /\ reward_calculator \in BOOLEAN
    /\ cards \in { <<>>, ApiCatalog }
    /\ user_cooldowns = [u \in {} |-> 0]
    /\ now = 0
    /\ apiReq = NoCall
    /\ apiResp = NoCall
    /\ selReq = NoCall
    /\ selResp = Pending
    /\ calcReq = NoCall
    /\ calcResp = NoCall
    /\ catalog_file = <<>>
    /\ loadResp = NoCall
    /\ rankReq = NoCall
    /\ rankResp = NoCall

\* time passes between two requests
Tick ==
    /\ now < MaxTicks * MinutesPerTick
    /\ now' = now + MinutesPerTick
    /\ UNCHANGED <<models, reward_calculator, user_cooldowns, apiReq, apiResp>>
    /\ UNCHANGED engineVars

\* POST /trigger-classify
TriggerClassify ==
    /\ \E request \in TransactionRequests :
          \E out \in { trigger_classify(request) } :
             /\ apiReq' = [ endpoint |-> "/trigger-classify",
                            request |-> request ]
             /\ apiResp' = out.response
             /\ user_cooldowns' = out.user_cooldowns
    /\ UNCHANGED <<models, reward_calculator, now>>
    /\ UNCHANGED engineVars

\* POST /personalized-ranking
PersonalizedRanking ==
    /\ \E request \in RankingRequests :
          /\ apiReq' = [ endpoint |-> "/personalized-ranking",
                         request |-> request ]
          /\ apiResp' = personalized_ranking(request)
    /\ UNCHANGED <<models, reward_calculator, user_cooldowns, now>>
    /\ UNCHANGED engineVars

\* POST /estimate-rewards
EstimateRewards ==
    /\ \E request \in RewardEstimationRequests :
          /\ apiReq' = [ endpoint |-> "/estimate-rewards",
                         request |-> request ]
          /\ apiResp' = estimate_rewards(request)
    /\ UNCHANGED <<models, reward_calculator, user_cooldowns, now>>
    /\ UNCHANGED engineVars

\* POST /optimize-portfolio
OptimizePortfolio ==
    /\ \E request \in PortfolioOptimizationRequests :
          /\ apiReq' = [ endpoint |-> "/optimize-portfolio",
                         request |-> request ]
          /\ apiResp' = optimize_portfolio(request)
    /\ UNCHANGED <<models, reward_calculator, user_cooldowns, now>>
    /\ UNCHANGED engineVars

ApiNext ==
    \/ Tick
    \/ TriggerClassify
    \/ PersonalizedRanking
    \/ EstimateRewards
    \/ OptimizePortfolio

ApiSpec == ApiInit /\ [][ApiNext]_vars

(***************************************************************************)
(* Properties of the selector                                              *)
(***************************************************************************)

\* the call has returned or raised
SelCalled == selResp # Pending

\* the list select_action received
Owned ==
    IF selReq.user_cards = Nothing THEN <<"citi_double_cash_card">>
    ELSE selReq.user_cards[1]

SelBest == selReq.reward_analysis.best_card_id
SelExtra == selReq.reward_analysis.extra_reward_amt
SelCategory == selReq.transaction.category
BestOwned == \E i \in DOMAIN Owned : Owned[i] = SelBest
OwnsBasic == \E i \in DOMAIN Owned : Owned[i] \in basic_cashback_cards
OwnsSpecialist ==
    \E i \in DOMAIN Owned : Owned[i] \in category_specialists(SelCategory)
ProfileSupplied ==
    /\ selReq.user_spending_pattern # Nothing
    /\ DOMAIN selReq.user_spending_pattern[1] # {}

\* C1: select_action answers 'none' (confidence 0) exactly when the best card
\* is owned or extra_reward_amt < 0.02; every other input gets 'add' or
\* 'switch' with a confidence above 0.
C1_NoneExactlyForRules1And2 ==
    (SelCalled /\ SelCategory # NoKey) =>
        /\ selResp.raised = None
        /\ (selResp.action = "none") <=> (BestOwned \/ SelExtra < 2)
        /\ selResp.action = "none" => selResp.confidence = 0
        /\ selResp.action # "none" =>
              /\ selResp.action \in {"add", "switch"}
              /\ selResp.confidence > 0

\* C1 witness: a call refused only because the benefit is below two cents
C1_Witness ==
    /\ SelCalled
    /\ ~BestOwned
    /\ SelExtra = 1
    /\ selResp.action = "none"
    /\ selResp.confidence = 0

\* C2 as stated: five owned cards always give switch / 0.8 /
\* max_cards_reached, whatever the reward numbers.
C2_Original ==
    (SelCalled /\ Len(Owned) = 5) =>
        /\ selResp.action = "switch"
        /\ selResp.confidence = 80
        /\ selResp.rule = "max_cards_reached"

\* C2 amended: with five owned cards, the best card not among them and
\* extra_reward_amt >= 0.02, the answer is switch / 0.8 / max_cards_reached
\* whatever reward_gap_pct, num_better_cards, category and profile are.
C2_MaxCardsSwitch ==
    (SelCalled /\ Len(Owned) = 5 /\ ~BestOwned /\ SelExtra >= 2) =>
        /\ selResp.action = "switch"
        /\ selResp.confidence = 80
        /\ selResp.rule = "max_cards_reached"

\* C2 witness: five cards, a dining transaction, rule 3 answered
C2_Witness ==
    /\ SelCalled
    /\ Len(Owned) = 5
    /\ SelExtra = 2
    /\ selReq.reward_analysis.num_better_cards = 0
    /\ selResp.rule = "max_cards_reached"

\* C3: with 3 or 4 owned cards, the best card not owned, extra >= 0.02 and
\* no spending profile, the answer is switch / optimize_existing_portfolio
\* for every category.
C3_OptimizeForThreeOrFour ==
    (/\ SelCalled
     /\ Len(Owned) \in {3, 4}
     /\ ~BestOwned
     /\ SelExtra >= 2
     /\ selReq.user_spending_pattern = Nothing
     /\ SelCategory # NoKey) =>
        /\ selResp.action = "switch"
        /\ selResp.rule = "optimize_existing_portfolio"

\* C4 as stated: the max-cards rule switches away from a plain-cashback card
\* whenever one is owned, else from the first owned card, with or without a
\* spending profile.
C4_Original ==
    (SelCalled /\ selResp.rule = "max_cards_reached") =>
        IF OwnsBasic THEN selResp.from_card \in basic_cashback_cards
        ELSE selResp.from_card = Owned[1]

\* C4 amended: the max-cards rule switches away from the first owned
\* plain-cashback card when one is owned and a non-empty spending profile is
\* supplied; in every other case from the first owned card.
C4_WorstCard ==
    (SelCalled /\ selResp.rule = "max_cards_reached") =>
        IF OwnsBasic /\ ProfileSupplied
        THEN /\ selResp.from_card \in basic_cashback_cards
             /\ \E i \in DOMAIN Owned :
                   /\ Owned[i] = selResp.from_card
                   /\ \A j \in 1..(i-1) : Owned[j] \notin basic_cashback_cards
        ELSE selResp.from_card = Owned[1]

\* C4 witness: wallet full, no profile, a plain-cashback card owned but not
\* first
C4_Witness ==
    /\ SelCalled
    /\ selResp.rule = "max_cards_reached"
    /\ ~ProfileSupplied
    /\ OwnsBasic
    /\ Owned[1] \notin basic_cashback_cards
    /\ selResp.from_card = Owned[1]

RuleConfidence ==
    [ r \in { "already_has_best_card", "insufficient_benefit",
              "max_cards_reached", "category_specialization",
              "high_annual_benefit", "portfolio_expansion",
              "optimize_existing_portfolio", "fallback_add" } |->
        CASE r = "already_has_best_card" -> 0
          [] r = "insufficient_benefit" -> 0
          [] r = "max_cards_reached" -> 80
          [] r = "category_specialization" -> 90
          [] r = "high_annual_benefit" -> 85
          [] r = "portfolio_expansion" -> 60
          [] r = "optimize_existing_portfolio" -> 70
          [] r = "fallback_add" -> 40 ]

\* C6: every call whose transaction carries a category returns, without
\* raising, an action in {add, switch, none}, a confidence in [0, 1] and one
\* of the eight rule names, and the rule fixes the confidence.
C6_TypedRecommendation ==
    (SelCalled /\ SelCategory # NoKey) =>
        /\ selResp.raised = None
        /\ selResp.action \in {"add", "switch", "none"}
        /\ selResp.confidence >= 0 /\ selResp.confidence <= 100
        /\ selResp.rule \in DOMAIN RuleConfidence
        /\ selResp.confidence = RuleConfidence[selResp.rule]

\* C6 witness: empty owned list, no current_card_id, a recommendation made
C6_Witness ==
    /\ SelCalled
    /\ Owned = <<>>
    /\ selReq.transaction.current_card_id = None
    /\ selResp.raised = None
    /\ selResp.action = "switch"

(***************************************************************************)
(* Properties of the calculator                                            *)
(***************************************************************************)

\* analyze_transaction has returned a RewardAnalysis
Analysed ==
    /\ calcResp # NoCall
    /\ calcResp.op = "analyze_transaction"
    /\ calcResp.raised = None

\* calculate_reward_amount has returned a CardReward
Rewarded ==
    /\ calcResp # NoCall
    /\ calcResp.op = "calculate_reward_amount"

\* the current card resolved to a catalog row
CurrentResolved == Analysed /\ calcResp.current_card_reward # Nothing

\* C7: the best card's reward_amount is at least that of every card of
\* all_card_rewards, which holds one entry per catalog row in non-increasing
\* order of reward_amount.
C7_BestIsMaxAndSorted ==
    Analysed =>
        LET all == calcResp.all_card_rewards
        IN /\ Len(all) = Len(cards)
           /\ \A i \in DOMAIN all :
                 RGe(calcResp.best_card_reward.reward_amount,
                     all[i].reward_amount)
           /\ \A i, j \in DOMAIN all :
                 i < j => RGe(all[i].reward_amount, all[j].reward_amount)

\* C7 witness: an analysis whose list is not in net_benefit order
C7_Witness ==
    /\ Analysed
    /\ Len(calcResp.all_card_rewards) = 3
    /\ RLt(calcResp.all_card_rewards[1].net_benefit,
           calcResp.all_card_rewards[2].net_benefit)
    /\ RGt(calcResp.all_card_rewards[1].reward_amount,
           calcResp.all_card_rewards[2].reward_amount)

\* C8: whenever the current card resolves to a catalog row, reward_gap_pct
\* is not negative.
C8_GapNonNegative ==
    CurrentResolved => RGe(calcResp.reward_gap_pct, Zero)

\* reward_amount of catalog row i for the analysed transaction
RowReward(i) ==
    calculate_reward_amount(cards[i], calcReq.amount,
                            calcReq.category).reward_amount

\* number of catalog rows that pay strictly more than the current card
StrictlyBetterRows ==
    Cardinality({ i \in DOMAIN cards :
                    RGt(RowReward(i),
                        calcResp.current_card_reward[1].reward_amount) })

\* C9 as stated: num_better_cards counts the rows that pay strictly more
\* than the current card, and is the catalog size minus one when there is no
\* current card.
C9_Original ==
    Analysed =>
        IF CurrentResolved
        THEN calcResp.num_better_cards = StrictlyBetterRows
        ELSE calcResp.num_better_cards = Len(cards) - 1

\* C9 amended: num_better_cards counts the rows that pay strictly more than
\* the current card, and is the catalog size (the best card included) when
\* there is no current card.
C9_NumBetterCards ==
    Analysed =>
        IF CurrentResolved
        THEN calcResp.num_better_cards = StrictlyBetterRows
        ELSE calcResp.num_better_cards = Len(cards)

\* C9 witness: the current card resolves, ties with another row and is
\* beaten by a third
C9_Witness ==
    /\ CurrentResolved
    /\ Len(cards) = 3
    /\ calcResp.num_better_cards = 1
    /\ \E i \in DOMAIN cards :
          /\ cards[i].card_id # calcResp.current_card_reward[1].card_id
          /\ RowReward(i) = calcResp.current_card_reward[1].reward_amount

\* reward units a dollar-spend cap gives: the part of the amount up to the
\* cap at the bonus rate, the part above it at the base rate
UnitsOf(card, dollars, rate) ==
    IF card.reward_type \in {"points", "miles"}
    THEN RMul(dollars, rate)
    ELSE RMul(dollars, RDiv(rate, Num(100)))

DollarCapReward(card, amount, bonus_rate) ==
    LET units ==
            IF RLe(amount, card.bonus_cap_amt)
            THEN UnitsOf(card, amount, bonus_rate)
            ELSE RAdd(UnitsOf(card, card.bonus_cap_amt, bonus_rate),
                      UnitsOf(card, RSub(amount, card.bonus_cap_amt),
                              card.base_rate_pct))
    IN RMul(units, RDiv(card.point_value_cent, Num(100)))

\* C10: for a capped card in a category whose bonus rate exceeds the base
\* rate, bonus_cap_amt is a dollar-spend threshold: amounts up to it earn at
\* the bonus rate, only the part above it earns at the base rate, for
\* cashback, points and miles alike.
C10_CapIsDollarThreshold ==
    (/\ Rewarded
     /\ RGt(calcResp.card.bonus_cap_amt, Zero)
     /\ RGt(calcResp.reward.bonus_rate, calcResp.card.base_rate_pct)) =>
        calcResp.reward.reward_amount =
            DollarCapReward(calcResp.card, calcReq.amount,
                            calcResp.reward.bonus_rate)

\* reward_amount of a card for an amount and a category
RewardAt(card, amount, category) ==
    calculate_reward_amount(card, amount, category).reward_amount

\* the test of line 120 holds: the raw units exceed max_bonus_points
CapExceeded(card, amount, category) ==
    LET bonus_rate == get_reward_rate_for_category(card, category)
    IN /\ RGt(card.bonus_cap_amt, Zero)
       /\ RGt(bonus_rate, card.base_rate_pct)
       /\ RGt(RawRewardPoints(card, amount, bonus_rate),
              MaxBonusPoints(card, bonus_rate))

\* what one more dollar adds to reward_amount
MarginalReward(card, amount, category) ==
    RSub(RewardAt(card, RAdd(amount, Num(1)), category),
         RewardAt(card, amount, category))

\* C11: for a capped card in a bonused category one more dollar adds strictly
\* less to reward_amount once the raw units exceed the cap than it adds while
\* they do not; for an uncapped card or a category that is not bonused
\* reward_amount is proportional to the amount.
C11_SubLinearPastCap ==
    Rewarded =>
        LET card == calcResp.card
            amount == calcReq.amount
            category == calcReq.category
        IN IF /\ RGt(card.bonus_cap_amt, Zero)
              /\ RGt(calcResp.reward.bonus_rate, card.base_rate_pct)
           THEN \A below \in Amounts :
                   (/\ CapExceeded(card, amount, category)
                    /\ ~CapExceeded(card, RAdd(below, Num(1)), category)) =>
                       RLt(RSub(RewardAt(card, RAdd(amount, Num(1)), category),
                                calcResp.reward.reward_amount),
                           MarginalReward(card, below, category))
           ELSE calcResp.reward.reward_amount =
                    RMul(amount, RewardAt(card, Num(1), category))

\* C11 witness: $300 of dining on the gold card, whose 4x bonus stops at
\* 1000 points: the reward is $18.90
C11_Witness ==
    /\ Rewarded
    /\ calcResp.card.card_id = "american_express_gold_card"
    /\ calcReq.amount = Num(300)
    /\ calcReq.category = "dining"
    /\ CapExceeded(calcResp.card, calcReq.amount, calcReq.category)
    /\ calcResp.reward.reward_amount = Dec(189, 10)

\* the bonus_categories key that answers for a category: the category
\* itself, "shopping" for online_shopping, else none
EntryFor(card, category) ==
    IF category \in DOMAIN card.bonus_categories THEN category
    ELSE IF /\ category \in {"online_shopping", "shopping"}
            /\ "shopping" \in DOMAIN card.bonus_categories
    THEN "shopping"
    ELSE NoKey

\* C12: applicable_rate is the larger of base_rate_pct and the rate for the
\* category; it differs from the base rate only when the category has a
\* bonus entry strictly above it, it is the base rate for a category
\* without an entry, and it is never below the base rate.
C12_ApplicableRateIsMax ==
    Rewarded =>
        LET card == calcResp.card
            base == card.base_rate_pct
            key == EntryFor(card, calcReq.category)
            applicable_rate == calcResp.reward.applicable_rate
        IN /\ RGe(applicable_rate, base)
           /\ key = NoKey => applicable_rate = base
           /\ key # NoKey =>
                 applicable_rate =
                    IF RGt(card.bonus_categories[key], base)
                    THEN card.bonus_categories[key] ELSE base

\* C12 witness: a dining entry below the base rate is not used
C12_Witness ==
    /\ Rewarded
    /\ calcReq.category = "dining"
    /\ "dining" \in DOMAIN calcResp.card.bonus_categories
    /\ RLt(calcResp.card.bonus_categories["dining"],
           calcResp.card.base_rate_pct)
    /\ calcResp.reward.applicable_rate = calcResp.card.base_rate_pct

\* C13: a current_card_id that matches no catalog row gives the result of
\* the call without a current card: current_card_reward is None,
\* reward_gap_pct is 0, extra_reward_amt is the best card's reward_amount,
\* and nothing is raised.
C13_UnknownCardIsNoCard ==
    (/\ calcResp # NoCall
     /\ calcResp.op = "analyze_transaction"
     /\ cards # <<>>
     /\ calcReq.current_card_id = "non_existent_card") =>
        /\ calcResp.raised = None
        /\ calcResp = analyze_transaction(cards, calcReq.amount,
                                          calcReq.category, None)
        /\ calcResp.current_card_reward = Nothing
        /\ calcResp.reward_gap_pct = Zero
        /\ calcResp.extra_reward_amt = calcResp.best_card_reward.reward_amount

\* C13 witness: an unknown current card on a three-row catalog whose best
\* card pays something
C13_Witness ==
    /\ Analysed
    /\ calcReq.current_card_id = "non_existent_card"
    /\ Len(cards) = 3
    /\ calcResp.current_card_reward = Nothing
    /\ RGt(calcResp.extra_reward_amt, Zero)

\* analyze_transaction has returned or raised
AnalyzeCalled == calcResp # NoCall /\ calcResp.op = "analyze_transaction"

C15_ZeroShortCircuits ==
    (AnalyzeCalled /\ cards # <<>>) =>
        /\ calcReq.amount = Zero =>
              /\ calcResp.raised = None
              /\ \A i \in DOMAIN calcResp.all_card_rewards :
                    calcResp.all_card_rewards[i].reward_amount = Zero
              /\ calcResp.reward_gap_pct = Zero
              /\ calcResp.extra_reward_amt = Zero
        /\ (\E i \in DOMAIN cards :
                /\ cards[i].card_id = calcReq.current_card_id
                /\ RowReward(i) = Zero) =>
              /\ calcResp.raised = None
              /\ calcResp.reward_gap_pct = Zero

\* C15 witness: $100 spent on a current card whose base rate is 0 while
\* another row pays
C15_Witness ==
    /\ CurrentResolved
    /\ calcReq.amount = Num(100)
    /\ calcResp.current_card_reward[1].base_rate = Zero
    /\ calcResp.current_card_reward[1].reward_amount = Zero
    /\ RGt(calcResp.extra_reward_amt, Zero)
    /\ calcResp.reward_gap_pct = Zero

\* a row whose every cell can be converted
ValidRow(row) ==
    json_loads(row.bonus_categories) # Nothing /\ ~FloatRaises(row)

\* C16: loading isolates a bad row: the loaded catalog holds exactly the
\* rows whose bonus_categories cell decodes and whose numeric cells are
\* numbers, each with its decoded mapping; a bad row is absent and does not
\* stop the load.
C16_BadRowIsolated ==
    loadResp # NoCall =>
        /\ loadResp.raised = None
        /\ LET good == SelectSeq(catalog_file, ValidRow)
           IN /\ Len(cards) = Len(good)
              /\ \A i \in DOMAIN good :
                    /\ cards[i].card_id = good[i].card_id
                    /\ cards[i].bonus_categories =
                          json_loads(good[i].bonus_categories)[1]

(***************************************************************************)
(* Properties of the ranking                                               *)
(***************************************************************************)

\* calculate_personalized_ranking has returned
Ranked ==
    rankResp # NoCall /\ rankResp.op = "calculate_personalized_ranking"

\* get_user_card_recommendations has returned
Recommended ==
    rankResp # NoCall /\ rankResp.op = "get_user_card_recommendations"

\* the owned list of the request
RankOwnedList ==
    IF rankReq.user_cards = Nothing THEN <<>> ELSE rankReq.user_cards[1]

\* C17: every ranking_score of calculate_personalized_ranking lies in
\* [0.1, 1.0] and the list is in non-increasing order of ranking_score.
C17_ScoreRangeAndOrder ==
    Ranked =>
        /\ \A i \in DOMAIN rankResp.result :
              /\ RGe(rankResp.result[i].ranking_score, Dec(1, 10))
              /\ RLe(rankResp.result[i].ranking_score, Num(1))
        /\ \A i, j \in DOMAIN rankResp.result :
              i < j => RGe(rankResp.result[i].ranking_score,
                           rankResp.result[j].ranking_score)

\* C17 witness: three cards ranked, the first strictly above the last, the
\* last raised to the floor of 0.1, and the catalog in another order
C17_Witness ==
    /\ Ranked
    /\ Len(rankResp.result) = 3
    /\ RGt(rankResp.result[1].ranking_score, rankResp.result[3].ranking_score)
    /\ rankResp.result[3].ranking_score = Dec(1, 10)
    /\ rankResp.result[1].card_id # rankReq.card_catalog[1].card_id

\* the card ids of the ranking rows in ascending lexical order
CardIdOrder ==
    << "american_express_gold_card", "capital_one_quicksilver",
       "capital_one_venture_rewards", "chase_freedom_unlimited",
       "citi_double_cash_card", "low_bonus_card",
       "wells_fargo_active_cash_card" >>

\* a < b as Python compares the two ids
LexLess(a, b) ==
    \E i, j \in DOMAIN CardIdOrder :
       CardIdOrder[i] = a /\ CardIdOrder[j] = b /\ i < j

\* C18: two cards with the same ranking_score are returned in ascending
\* lexical order of card_id, whatever their order in the catalog.
C18_TiesByCardId ==
    Ranked =>
        \A i, j \in DOMAIN rankResp.result :
           (/\ i < j
            /\ rankResp.result[i].ranking_score =
                  rankResp.result[j].ranking_score) =>
               LexLess(rankResp.result[i].card_id, rankResp.result[j].card_id)

\* the ids a list of records carries
IdsOf(s) == { s[i].card_id : i \in DOMAIN s }

\* C19: no card of the owned list is in the output of
\* calculate_personalized_ranking or of get_user_card_recommendations, and
\* the ranking holds every catalog card that is not owned, once.
C19_OwnedExcluded ==
    /\ Ranked =>
          /\ IdsOf(rankResp.result) \cap Range(RankOwnedList) = {}
          /\ IdsOf(rankResp.result) =
                IdsOf(rankReq.card_catalog) \ Range(RankOwnedList)
          /\ Len(rankResp.result) = Cardinality(IdsOf(rankResp.result))
    /\ Recommended =>
          /\ IdsOf(rankResp.result) \cap Range(RankOwnedList) = {}
          /\ IdsOf(rankResp.result) \subseteq IdsOf(rankReq.card_catalog)

\* C19 witness: two owned cards, both rows of a three-row catalog, and the
\* third row is the whole ranking
C19_Witness ==
    /\ Ranked
    /\ Len(RankOwnedList) = 2
    /\ Len(rankReq.card_catalog) = 3
    /\ Range(RankOwnedList) \subseteq IdsOf(rankReq.card_catalog)
    /\ Len(rankResp.result) = 1

\* the signup-bonus term as the claim gives it
ClaimedBonusTerm(signup_bonus) ==
    RMul(RMin(RDiv(signup_bonus, Num(2000)), Num(1)), Dec(2, 10))

\* C20: the signup-bonus term of the composite score is
\* min(signup_bonus / 2000, 1.0) * 0.2: every ranking_score is the clamped
\* sum of the benefit and effectiveness terms and that term, less the fee
\* penalty.
C20_SignupBonusTerm ==
    Ranked =>
        LET total_spending ==
                RMul(RSumOver(rankReq.user_spending_pattern,
                              DOMAIN rankReq.user_spending_pattern), Num(12))
        IN \A i \in DOMAIN rankResp.result :
              LET r == rankResp.result[i]
              IN r.ranking_score =
                    RMax(Dec(1, 10),
                         RMin(Num(1),
                              RSub(RAdd(RAdd(benefit_score(r.net_benefit),
                                             effectiveness_score(
                                                 r.net_benefit, r.annual_fee,
                                                 total_spending)),
                                        ClaimedBonusTerm(r.signup_bonus)),
                                   fee_penalty(r.annual_fee, total_spending))))
\* the catalog row a ranking entry was computed from
RankedCard(entry) ==
    CHOOSE card \in Range(rankReq.card_catalog) : card.card_id = entry.card_id

\* C21: the ranking picks the rate of a category as calculate_reward_amount
\* does (the bonus entry only if it exceeds the base rate), so the projected
\* reward of a category is never below its reward at the base rate.
C21_RateAsInCalculator ==
    Ranked =>
        \A i \in DOMAIN rankResp.result :
           LET entry == rankResp.result[i]
               card == RankedCard(entry)
               pattern == rankReq.user_spending_pattern
           IN \A c \in DOMAIN pattern :
                 /\ entry.category_breakdown[c] =
                       category_reward(card, pattern[c],
                          calculate_reward_amount(card, pattern[c], c)
                              .applicable_rate)
                 /\ RGe(entry.category_breakdown[c],
                        category_reward(card, pattern[c], card.base_rate_pct))

\* the request of the shipped-catalog scenario: $250 of dining paid with
\* the Citi Double Cash card
GoldScenario ==
    /\ AnalyzeCalled
    /\ cards = ShippedCatalog
    /\ calcReq = [ amount |-> Num(250), category |-> "dining",
                   current_card_id |-> "citi_double_cash_card" ]

\* C22: with the shipped catalog, a $250 dining transaction with current card
\* citi_double_cash_card has best card american_express_gold_card,
\* extra_reward_amt > 0 and reward_gap_pct > 0.
C22_GoldBestAtCapBoundary ==
    GoldScenario =>
        /\ calcResp.raised = None
        /\ calcResp.best_card_reward.card_id = "american_express_gold_card"
        /\ RGt(calcResp.extra_reward_amt, Zero)
        /\ RGt(calcResp.reward_gap_pct, Zero)

\* C22 witness: the scenario was analysed; the Gold card's 1000 points are
\* exactly max_bonus_points, so the cap test of line 120 is not yet true at
\* $250 and is true one dollar later
C22_Witness ==
    /\ GoldScenario
    /\ calcResp.raised = None
    /\ calcResp.best_card_reward.reward_amount = Num(18)
    /\ RawRewardPoints(AmexGold, Num(250), Num(4)) =
          MaxBonusPoints(AmexGold, Num(4))
    /\ ~CapExceeded(AmexGold, Num(250), "dining")
    /\ CapExceeded(AmexGold, Num(251), "dining")

\* rules 1 to 4 of select_action do not answer and nothing is raised
\* before rule 5
PastRule4 ==
    /\ SelCalled
    /\ ~BestOwned
    /\ SelExtra >= 2
    /\ Len(Owned) < 5
    /\ SelCategory # NoKey
    /\ ~(SelCategory \in high_value_categories /\ ~OwnsSpecialist)

\* the annual spending of the profile, in dollars
SelTotal ==
    SumOver(selReq.user_spending_pattern[1],
            DOMAIN selReq.user_spending_pattern[1])

\* total_spending * 0.01 * (m - 1) >= 100 in exact arithmetic, with
\* m - 1 in tenths
ClaimedBenefitReached ==
    SelTotal * MultiplierGain10(SelBest) >= 100 * 1000

\* a step in which /trigger-classify handles a request
TriggerStep ==
    /\ now' = now
    /\ apiReq' # NoCall
    /\ apiReq'.endpoint = "/trigger-classify"

\* the response of lines 242-248
IsCooldownResponse(response) ==
    /\ response.raised = None
    /\ ~response.body[1].recommend_flag
    /\ response.body[1].reasoning = "User in cooldown period"

\* C23: a /trigger-classify request for a user whose last recommendation
\* (recommend_flag = true) is younger than the cooldown window of 60 minutes
\* returns recommend_flag = false with reasoning 'User in cooldown period';
\* a request for a user who is not in the window is not answered that way.
C23_CooldownSuppresses ==
    [][ TriggerStep =>
           (InCooldownWindow(apiReq'.request.user_id, CooldownMinutes)
               <=> IsCooldownResponse(apiResp')) ]_vars

\* C24: when rules 1-4 do not match and a non-empty profile is supplied, the
\* answer is switch / 0.85 / high_annual_benefit exactly when
\* total_spending * 0.01 * (m - 1) >= 100 with m = 2.0 for a sapphire id,
\* 1.8 for gold, 1.4 for double_cash and 1.5 otherwise, whatever the owned
\* count below 5.
C24_AnnualBenefitSwitch ==
    (PastRule4 /\ ProfileSupplied) =>
        /\ (selResp.rule = "high_annual_benefit") <=> ClaimedBenefitReached
        /\ selResp.rule = "high_annual_benefit" =>
               /\ selResp.action = "switch"
               /\ selResp.confidence = 85

\* rule 5 answers: a non-empty profile whose estimate reaches the threshold
Rule5Answers ==
    /\ Truthy(selReq.user_spending_pattern)
    /\ _estimate_annual_benefit(SelBest, selReq.transaction.current_card_id,
                                selReq.user_spending_pattern)
          >= switch_benefit_threshold * 2000

\* C25: when rules 1-5 do not match and fewer than 3 cards are owned, the
\* answer is add / 0.6 / portfolio_expansion if extra_reward_amt >= 0.05 and
\* add / 0.4 / fallback_add if 0.02 <= extra_reward_amt < 0.05; with 3 or
\* more owned cards the fallback rule never answers.
C25_ExpansionOrFallback ==
    /\ (PastRule4 /\ ~Rule5Answers /\ Len(Owned) < 3) =>
          /\ SelExtra >= 5 =>
                /\ selResp.action = "add"
                /\ selResp.confidence = 60
                /\ selResp.rule = "portfolio_expansion"
          /\ (SelExtra >= 2 /\ SelExtra < 5) =>
                /\ selResp.action = "add"
                /\ selResp.confidence = 40
                /\ selResp.rule = "fallback_add"
    /\ (SelCalled /\ Len(Owned) >= 3) => selResp.rule # "fallback_add"

\* C25 witness: two cards owned, a profile below the switch threshold and an
\* extra reward of four cents: the fallback answers
C25_Witness ==
    /\ PastRule4
    /\ ProfileSupplied
    /\ ~Rule5Answers
    /\ Len(Owned) = 2
    /\ SelExtra = 4
    /\ selResp.rule = "fallback_add"

\* the request the last response answers was sent to this endpoint
Answered(endpoint) == apiReq # NoCall /\ apiReq.endpoint = endpoint

\* C26: an HTTP error raised deliberately inside a handler reaches the
\* caller with its own status code: /estimate-rewards for a card_id that is
\* not in the catalog answers 404 'Card not found', /personalized-ranking
\* and /optimize-portfolio without a catalog answer 503, /optimize-portfolio
\* with no valid current card answers 400.
C26_DeliberateStatusKept ==
    /\ ( /\ Answered("/estimate-rewards")
         /\ reward_calculator
         /\ \A i \in DOMAIN cards : cards[i].card_id # apiReq.request.card_id )
       => /\ apiResp.status_code = 404
          /\ apiResp.detail = "Card not found"
    /\ ( /\ Answered("/personalized-ranking")
         /\ "card_ranker" \in models
         /\ cards = <<>> )
       => apiResp.status_code = 503
    /\ (Answered("/optimize-portfolio") /\ cards = <<>>)
       => apiResp.status_code = 503
    /\ ( /\ Answered("/optimize-portfolio")
         /\ cards # <<>>
         /\ \A i \in DOMAIN cards :
               cards[i].card_id \notin Range(apiReq.request.current_cards) )
       => apiResp.status_code = 400

\* C27: every 'switch' names in from_card a card of the owned list (never
\* None, empty or a card that is not owned), and no 'switch' is returned
\* for a user who owns no card.
C27_SwitchFromOwnedCard ==
    (SelCalled /\ selResp.action = "switch") =>
        /\ Owned # <<>>
        /\ selResp.from_card \in Range(Owned)

\* C28: when the current card resolves, extra_reward_amt > 0 exactly when
\* num_better_cards > 0, and extra_reward_amt is best_card_reward.reward_amount
\* minus current_card_reward.reward_amount (0 when the current card is best).
C28_GapMeasuresAgree ==
    CurrentResolved =>
        /\ RGt(calcResp.extra_reward_amt, Zero) <=>
              calcResp.num_better_cards > 0
        /\ calcResp.extra_reward_amt =
              RSub(calcResp.best_card_reward.reward_amount,
                   calcResp.current_card_reward[1].reward_amount)

\* C29: for every card and every annual spend that stays below the card's
\* cap, the reward get_user_card_recommendations adds for a category is
\* calculate_reward_amount(card, spend, category).reward_amount, for
\* cashback, points and miles alike; net_annual_benefit plus the fee is
\* therefore the sum of those reward amounts.
C29_RecommendationsUseCalculatorRewards ==
    Recommended =>
        \A i \in DOMAIN rankResp.result :
           LET entry == rankResp.result[i]
               card == RankedCard(entry)
               pattern == rankReq.user_spending_pattern
           IN (\A c \in DOMAIN pattern :
                  ~CapExceeded(card, pattern[c], c)) =>
                 RAdd(entry.net_annual_benefit, card.annual_fee) =
                    RSumOver([c \in DOMAIN pattern |->
                                 IF RGt(pattern[c], Zero)
                                 THEN RewardAt(card, pattern[c], c)
                                 ELSE Zero],
                             DOMAIN pattern)

\* C30: a step changes user_cooldowns only if it is a /trigger-classify
\* request that returns recommend_flag = true, and then only the entry of the
\* requesting user, which becomes the time of the request; a request that
\* returns false or fails, and every other endpoint, leaves the map as it is.
C30_CooldownFrame ==
    [][ \/ user_cooldowns' = user_cooldowns
        \/ /\ TriggerStep
           /\ apiResp'.raised = None
           /\ apiResp'.body[1].recommend_flag
           /\ DOMAIN user_cooldowns' =
                 DOMAIN user_cooldowns \cup {apiReq'.request.user_id}
           /\ user_cooldowns'[apiReq'.request.user_id] = now
           /\ \A u \in DOMAIN user_cooldowns \ {apiReq'.request.user_id} :
                 user_cooldowns'[u] = user_cooldowns[u] ]_vars

\* C30 witness: user_b was just recommended a card, which set user_b's entry
\* to the current time, while user_a's older entry is still in the map
C30_Witness ==
    /\ Answered("/trigger-classify")
    /\ apiReq.request.user_id = "user_b"
    /\ apiResp.raised = None
    /\ apiResp.body[1].recommend_flag
    /\ DOMAIN user_cooldowns = UserIds
    /\ user_cooldowns["user_b"] = now
    /\ user_cooldowns["user_a"] < now

====
